---- MODULE Spec2Model ----
(***************************************************************************)
(* Model of the QualiBot GitHub action (run, postComment, logSummary).     *)
(*                                                                         *)
(* One run of the action is one behaviour.  The state is the local         *)
(* variables of run(), the calls the run makes on the outside world        *)
(* (creation request, status reads, comment write, summary write,          *)
(* setOutput, setFailed) and a clock.  Time is counted in seconds; the     *)
(* clock advances only while the run sleeps (sleep(pollInterval * 1000)    *)
(* advances it by exactly pollInterval seconds), every other step takes    *)
(* no time.                                                                *)
(***************************************************************************)
EXTENDS Integers, Sequences, FiniteSets, TLC

VARIABLES
    pc,               \* position of run()
    pr,               \* context.payload.pull_request is present
    waitForResults,   \* input wait-for-results
    timeout,          \* parseInt(input timeout), seconds (0 when timeoutNaN)
    timeoutNaN,       \* parseInt(input timeout) is NaN
    pollInterval,     \* parseInt(input poll-interval), seconds
    failOnCritical,   \* input fail-on-critical
    commentOnPR,      \* input comment-on-pr
    githubToken,      \* input github-token ("" when not given)
    apiKey, orgId, projectId, targetUrl,   \* inputs api-key, org-id, project-id, target-url
    viewportsInput,   \* input viewports, a sequence of characters
    viewports,        \* viewports, the parsed pairs
    now,              \* Date.now(), seconds
    startTime,        \* startTime
    triggerRequests,  \* number of POST /pr-tests requests issued
    triggerResponse,  \* <<>> until the creation request is answered, then <<response>>
    testId,           \* triggerData.prTestId
    dashboardUrl,     \* dashboardUrl
    finalStatus, finalResult, totalIssues, criticalIssues,
    testData,         \* <<>> for null, <<payload>> otherwise
    readTimes,        \* time of every GET /pr-tests/:id request, in order
    inFlight,         \* status reads issued and not yet answered
    failedReads,      \* status reads answered with a non-success response
    firstTerminal,    \* index of the first read answered ok with a terminal status, 0 if none
    lastOkPayload,    \* history: the payload the service sent in its last ok answer, <<>> if none
    lastShape,        \* history: the shape of that answer
    outputs,          \* core.setOutput values
    comments,         \* bodies written by octokit.rest.issues.createComment
    commentOutcome,   \* what postComment did
    commentWrites,    \* number of createComment calls
    summaryWrites,    \* number of core.summary write() calls
    summaryFile,      \* the step summary: "none", "pending" (write() called, not settled),
                      \* "written" or "rejected"
    setFailedCalls,   \* number of core.setFailed calls
    failureMessage    \* argument of the last core.setFailed call

vars == <<pc, pr, waitForResults, timeout, timeoutNaN, pollInterval, failOnCritical,
          commentOnPR, githubToken, apiKey, orgId, projectId, targetUrl,
          viewportsInput, viewports, lastOkPayload, lastShape,
          now, startTime, triggerRequests,
          triggerResponse, testId, dashboardUrl, finalStatus, finalResult, totalIssues, criticalIssues,
          testData, readTimes, inFlight, failedReads, firstTerminal, outputs,
          comments, commentOutcome, commentWrites, summaryWrites, summaryFile,
          setFailedCalls,
          failureMessage>>

(***************************************************************************)
(* Bounds of the model.                                                    *)
(***************************************************************************)
MaxTimeout == 3
MaxInterval == 2
MaxIssues == 2
MaxListed == 11
MaxInputLen == 4

(***************************************************************************)
(* Inputs.                                                                 *)
(***************************************************************************)
\* parseInt(getInput("timeout") || "1800", 10): any integer, or NaN.
TimeoutInputs == (-1)..MaxTimeout

\* parseInt(getInput("poll-interval") || "30", 10); the model covers the
\* positive intervals (the clock only advances by sleeping).
IntervalInputs == 1..MaxInterval

\* <<timeout, pollInterval>> pairs, with the documented 60 s / 30 s scenario
\* and one where the timeout is no multiple of the interval.
Timings == (TimeoutInputs \X IntervalInputs) \cup {<<60, 30>>, <<100, 30>>}

Tokens == {"", "ghs_token"}

\* Responses of POST /pr-tests.
TriggerResponses ==
    { [ok |-> TRUE,  status |-> 200, body |-> "",         prTestId |-> "t1"],
      [ok |-> FALSE, status |-> 500, body |-> "internal", prTestId |-> ""],
      [ok |-> FALSE, status |-> 401, body |-> "denied",   prTestId |-> ""] }

(***************************************************************************)
(* PRTestResponse, the fields run() and postComment() read.  A missing     *)
(* string field is "", a missing runNumber is 0 (both are falsy in the     *)
(* code's `||` defaults); issuesSummary may be absent as a whole.          *)
(***************************************************************************)
Statuses == {"running", "completed", "failed"}
ResultLabels == {"", "passed", "failed"}
ErrorStrings == {"", "boom"}

Summaries ==
    { [present |-> FALSE, total |-> 0, critical |-> 0] } \cup
    [present : {TRUE}, total : 0..MaxIssues, critical : 0..MaxIssues]

\* Payloads that vary the fields the poll loop copies.
CorePayloads ==
    [status : Statuses, result : ResultLabels, issuesSummary : Summaries,
     error : ErrorStrings, affectedComponents : {0}, runNumber : {0},
     testResults : {0}]

\* Payloads that vary the fields only postComment reads.
ReportPayloads ==
    [status : Statuses, result : {"passed", "failed"},
     issuesSummary : {[present |-> TRUE, total |-> 1, critical |-> 0]},
     error : {""}, affectedComponents : {0, 1}, runNumber : {0, 1, 2},
     testResults : {0, 1}]

Payloads == CorePayloads \cup ReportPayloads

(***************************************************************************)
(* Helpers of run().                                                       *)
(***************************************************************************)
IsNull(td) == td = <<>>

\* appBaseUrl = apiUrl.replace("/api/v1", "")
AppBaseUrl == "https://quali-bot--quali-bot-da8cd.europe-west4.hosted.app"

\* a URL that names the project as well
DashboardUrl_WithProject(id) == <<AppBaseUrl, "/", projectId, "/view/", id>>

\* `${appBaseUrl}/view/${testId}`
DashboardUrl(id) == <<AppBaseUrl, "/view/", id>>

\* number.toString() for the counts the model reaches
Digits == <<"0", "1", "2", "3", "4", "5", "6", "7", "8", "9">>
NumberToString(n) == IF n >= 0 /\ n < Len(Digits) THEN Digits[n + 1] ELSE "many"

(***************************************************************************)
(* Strings of the viewports input are sequences of one-character strings.  *)
(***************************************************************************)
IsDigit(c) == \E d \in DOMAIN Digits : Digits[d] = c
DigitValue(c) == (CHOOSE d \in DOMAIN Digits : Digits[d] = c) - 1

RECURSIVE DecimalValue(_)
DecimalValue(ds) ==
    IF ds = <<>> THEN 0
    ELSE 10 * DecimalValue(SubSeq(ds, 1, Len(ds) - 1)) + DigitValue(ds[Len(ds)])

RECURSIVE StripZeros(_)
StripZeros(ds) ==
    IF ds # <<>> /\ ds[Len(ds)] = "0" THEN StripZeros(SubSeq(ds, 1, Len(ds) - 1)) ELSE ds

\* String.prototype.split(sep) for a one-character separator
RECURSIVE SplitOn(_, _)
SplitOn(str, sep) ==
    IF \A i \in DOMAIN str : str[i] # sep THEN <<str>>
    ELSE LET k == CHOOSE i \in DOMAIN str : str[i] = sep /\ \A j \in 1..(i - 1) : str[j] # sep
         IN  <<SubSeq(str, 1, k - 1)>> \o SplitOn(SubSeq(str, k + 1, Len(str)), sep)

\* String.prototype.trim()
Trim(str) ==
    LET solid == {i \in DOMAIN str : str[i] # " "}
    IN  IF solid = {} THEN <<>>
        ELSE SubSeq(str, CHOOSE i \in solid : \A j \in solid : i <= j,
                         CHOOSE i \in solid : \A j \in solid : i >= j)

\* A JavaScript number: NaN, or sign, integer part and the digits after the
\* point without trailing zeros.
NaN == [nan |-> TRUE, neg |-> FALSE, int |-> 0, frac |-> <<>>]
WholeNumber(n) == [nan |-> FALSE, neg |-> FALSE, int |-> n, frac |-> <<>>]

\* Number(str): white space around the literal is ignored, the empty string
\* is 0, a sign may lead, then digits with at most one point and at least
\* one digit; anything else is NaN.
Number(str) ==
    LET t == Trim(str)
        signed == t # <<>> /\ t[1] \in {"-", "+"}
        body == IF signed THEN Tail(t) ELSE t
        dots == {i \in DOMAIN body : body[i] = "."}
    IN  IF t = <<>> THEN WholeNumber(0)
        ELSE IF \/ \E i \in DOMAIN body : ~IsDigit(body[i]) /\ body[i] # "."
                \/ Cardinality(dots) > 1
                \/ Len(body) = Cardinality(dots)
        THEN NaN
        ELSE LET k == IF dots = {} THEN Len(body) + 1 ELSE CHOOSE i \in dots : TRUE
             IN  [nan |-> FALSE,
                  neg |-> signed /\ t[1] = "-",
                  int |-> DecimalValue(SubSeq(body, 1, k - 1)),
                  frac |-> StripZeros(SubSeq(body, k + 1, Len(body)))]

\* the truth value of a number: false for NaN, 0 and -0
Truthy(n) == ~n.nan /\ (n.int # 0 \/ n.frac # <<>>)

\* getInput("viewports") || "1920x1080"
DefaultViewports == <<"1", "9", "2", "0", "x", "1", "0", "8", "0">>

\* const [w, h] = v.trim().split("x").map(Number); w && h ? {width, height} : null
\* <<>> is null; h is undefined, and so false, when there is no second part
ParseViewport(v) ==
    LET parts == SplitOn(Trim(v), "x")
    IN  IF Len(parts) >= 2 /\ Truthy(Number(parts[1])) /\ Truthy(Number(parts[2]))
        THEN <<[width |-> Number(parts[1]), height |-> Number(parts[2])]>>
        ELSE <<>>

RECURSIVE KeepParsed(_)
KeepParsed(tokens) ==
    IF tokens = <<>> THEN <<>> ELSE ParseViewport(Head(tokens)) \o KeepParsed(Tail(tokens))

\* .split(",").map(...).filter(Boolean)
ParseViewports(input) ==
    KeepParsed(SplitOn(IF input = <<>> THEN DefaultViewports ELSE input, ","))

\* responseData as the service sends payload p: at the top level, or nested
\* under prTest
Response(shape, p) == IF shape = "nested" THEN [prTest |-> p] ELSE p

\* an object none of whose payload fields is there
EmptyPayload ==
    [status |-> "", result |-> "",
     issuesSummary |-> [present |-> FALSE, total |-> 0, critical |-> 0],
     error |-> "", affectedComponents |-> 0, runNumber |-> 0, testResults |-> 0]

\* the payload read at the top level only: a nested answer shows no field
Unwrap_TopOnly(responseData) ==
    IF "prTest" \in DOMAIN responseData THEN EmptyPayload ELSE responseData

\* responseData.prTest || responseData
Unwrap(responseData) ==
    IF "prTest" \in DOMAIN responseData THEN responseData.prTest ELSE responseData

\* the first payload received is kept
StoreResult_KeepFirst(old, p) == IF old = <<>> THEN <<p>> ELSE old

\* testData = ...: the reference is replaced
StoreResult(old, p) == <<p>>


\* the while test on the magnitude of the timeout
WhileCondition_Magnitude(t, start, to, nan) ==
    ~nan /\ (t - start) * 1000 < (IF to < 0 THEN -to ELSE to) * 1000

\* the while test with <= for <
WhileCondition_Inclusive(t, start, to, nan) == ~nan /\ (t - start) * 1000 <= to * 1000

\* the while test comparing milliseconds with the timeout in seconds
WhileCondition_Unscaled(t, start, to, nan) == ~nan /\ (t - start) * 1000 < to

\* while (Date.now() - startTime < timeout * 1000); a comparison with NaN is false
WhileCondition(t, start, to, nan) == ~nan /\ (t - start) * 1000 < to * 1000

\* the sleep with the interval taken twice
SleepSeconds_Double(interval) == (interval * 2000) \div 1000

\* await sleep(pollInterval * 1000): the seconds the clock advances
SleepSeconds(interval) == (interval * 1000) \div 1000

\* the terminal test accepting every status
IsTerminal_Any(status) == TRUE

\* the terminal test with the failed marker forgotten
IsTerminal_OnlyCompleted(status) == status = "completed"

\* testData.status === "completed" || testData.status === "failed"
IsTerminal(status) == status = "completed" \/ status = "failed"

\* the label copied as it is
ResultOf_NoDefault(p) == p.result

\* testData.result || "unknown"
ResultOf(p) == IF p.result = "" THEN "unknown" ELSE p.result

\* testData.issuesSummary?.total || 0
TotalOf(p) == IF p.issuesSummary.present THEN p.issuesSummary.total ELSE 0

\* testData.issuesSummary?.critical || 0
CriticalOf(p) == IF p.issuesSummary.present THEN p.issuesSummary.critical ELSE 0

\* testData?.error || "Unknown error"
ErrorOf(td) == IF IsNull(td) \/ td[1].error = "" THEN "Unknown error" ELSE td[1].error

\* a non-success status response leaving the loop (break for continue)
AfterFailedRead_Break == "outputs"

\* where `continue` after a non-success status response leads: the while test
AfterFailedRead == "loop"

\* the request issued before the sleep
LoopBodyStart_Request == "fetch"

\* where the loop body starts: the sleep precedes the request
LoopBodyStart == "sleep"

(***************************************************************************)
(* core.setFailed messages.                                                *)
(***************************************************************************)
NoFailure == [kind |-> "none", n |-> 0, detail |-> ""]

\* the trigger error without the response's status code and body
TriggerFailure_NoDetail(resp) ==
    [kind |-> "Failed to trigger test", n |-> 0, detail |-> ""]

\* `Failed to trigger test (${triggerResponse.status}): ${errorBody}`
TriggerFailure(resp) ==
    [kind |-> "Failed to trigger test", n |-> resp.status, detail |-> resp.body]

\* error.message of a rejected fetch
FetchFailure == [kind |-> "error.message", n |-> 0, detail |-> "fetch failed"]

\* error.message of an error thrown out of postComment
CommentFailure == [kind |-> "error.message", n |-> 0, detail |-> "comment failed"]

TimeoutFailure ==
    [kind |-> "QualiBot test timed out. Check the dashboard for details.",
     n |-> 0, detail |-> ""]

RemoteFailure(err) == [kind |-> "QualiBot test failed", n |-> 0, detail |-> err]

CriticalFailure(c) ==
    [kind |-> "QualiBot found n critical visual issue(s).", n |-> c, detail |-> ""]

\* Step 5 with the critical test not guarded by the fail-on-critical flag
ExitDecision_FlagIgnored(status, foc, critical, td) ==
    IF status = "timeout" THEN TimeoutFailure
    ELSE IF status = "failed" THEN RemoteFailure(ErrorOf(td))
    ELSE IF critical > 0 THEN CriticalFailure(critical)
    ELSE NoFailure

\* Step 5 of run(): the message passed to core.setFailed, NoFailure for none
ExitDecision(status, foc, critical, td) ==
    IF status = "timeout" THEN TimeoutFailure
    ELSE IF status = "failed" THEN RemoteFailure(ErrorOf(td))
    ELSE IF foc /\ critical > 0 THEN CriticalFailure(critical)
    ELSE NoFailure

(***************************************************************************)
(* postComment().                                                          *)
(***************************************************************************)
MaxIssueRows == 10

\* the data argument run() builds for postComment
CommentData(status, result, total, critical, td) ==
    [status |-> status, result |-> result,
     totalIssues |-> total, criticalIssues |-> critical,
     components |-> IF IsNull(td) THEN 0 ELSE td[1].affectedComponents,
     issues |-> IF IsNull(td) THEN 0 ELSE td[1].testResults,
     runNumber |-> IF IsNull(td) \/ td[1].runNumber = 0 THEN 1 ELSE td[1].runNumber]

\* the chain with the issue counts tested before the result label
Banner_IssuesFirst(status, result, critical, total) ==
    IF status = "timeout" THEN "Test Timed Out"
    ELSE IF critical > 0 THEN "Critical Visual Issues Found"
    ELSE IF total > 0 THEN "Visual Issues Found"
    ELSE IF result = "passed" THEN "Visual Tests Passed"
    ELSE "Visual Tests Failed"

\* the if / else-if chain choosing emoji, title and details
Banner(status, result, critical, total) ==
    IF status = "timeout" THEN "Test Timed Out"
    ELSE IF result = "passed" THEN "Visual Tests Passed"
    ELSE IF critical > 0 THEN "Critical Visual Issues Found"
    ELSE IF total > 0 THEN "Visual Issues Found"
    ELSE "Visual Tests Failed"

\* data.issues.slice(0, 10): the rows of the issues table; the issues list of
\* n items is <<1, ..., n>>, each item named by its place in the list
IssueRows(n) == [i \in 1..(IF n > MaxIssueRows THEN MaxIssueRows ELSE n) |-> i]

\* the overflow note written for a list of exactly ten items too
OverflowNote_Inclusive(n) == IF n >= MaxIssueRows THEN <<n - MaxIssueRows>> ELSE <<>>

\* if (data.issues.length > 10): `_...and ${data.issues.length - 10} more issues_`,
\* <<>> when there is no note
OverflowNote(n) == IF n > MaxIssueRows THEN <<n - MaxIssueRows>> ELSE <<>>

\* the comment body, as the parts that vary
RenderComment(data) ==
    [banner |-> Banner(data.status, data.result, data.criticalIssues, data.totalIssues),
     runTag |-> IF data.runNumber > 1 THEN data.runNumber ELSE 0,
     totalIssues |-> data.totalIssues,
     criticalIssues |-> data.criticalIssues,
     components |-> data.components,
     issuesSection |-> data.issues > 0,
     issueRows |-> IssueRows(data.issues),
     overflowNote |-> OverflowNote(data.issues)]

\* what postComment can do: write the comment, throw while rendering, or
\* throw in createComment
CommentOutcomes == {"posted", "render_error", "write_error"}

\* postComment without its try / catch: an error reaches run()
PostCommentEnds_Unguarded(outcome) == IF outcome = "posted" THEN "returns" ELSE "throws"

\* how the call of postComment ends for run(): its try / catch swallows every
\* error (core.warning only), so the call always returns
PostCommentEnds(outcome) == "returns"

(***************************************************************************)
(* The run.                                                                *)
(***************************************************************************)
Unset == "<unset>"

NoOutputs ==
    [testId |-> Unset, dashboardUrl |-> <<>>, status |-> Unset, result |-> Unset,
     totalIssues |-> Unset, criticalIssues |-> Unset]

\* every variable run() declares or writes, before its first statement
FreshRun ==
    /\ now = 0
    /\ startTime = 0
    /\ triggerRequests = 0
    /\ triggerResponse = <<>>
    /\ testId = ""
    /\ dashboardUrl = <<>>
    /\ finalStatus = Unset
    /\ finalResult = Unset
    /\ totalIssues = 0
    /\ criticalIssues = 0
    /\ testData = <<>>
    /\ readTimes = <<>>
    /\ inFlight = 0
    /\ failedReads = 0
    /\ firstTerminal = 0
    /\ lastOkPayload = <<>>
    /\ lastShape = "none"
    /\ outputs = NoOutputs
    /\ comments = <<>>
    /\ commentOutcome = "none"
    /\ commentWrites = 0
    /\ summaryWrites = 0
    /\ summaryFile = "none"
    /\ setFailedCalls = 0
    /\ failureMessage = NoFailure

\* one choice of the identity inputs and the default viewports input
PlainInputs ==
    /\ apiKey = "k1"
    /\ orgId = "o1"
    /\ projectId = "p1"
    /\ targetUrl = "u1"
    /\ viewportsInput = <<>>
    /\ viewports = ParseViewports(<<>>)

Init ==
    /\ pc = "start"
    /\ pr \in BOOLEAN
    /\ waitForResults \in BOOLEAN
    /\ \/ /\ timeoutNaN = FALSE
          /\ \E tm \in Timings : timeout = tm[1] /\ pollInterval = tm[2]
       \/ /\ timeoutNaN = TRUE
          /\ timeout = 0
          /\ pollInterval \in IntervalInputs
    /\ failOnCritical \in BOOLEAN
    /\ commentOnPR \in BOOLEAN
    /\ githubToken \in Tokens
    /\ PlainInputs
    /\ FreshRun

triggerVars == <<triggerRequests, triggerResponse>>
inputVars == <<pr, waitForResults, timeout, timeoutNaN, pollInterval, failOnCritical,
               commentOnPR, githubToken, apiKey, orgId, projectId, targetUrl,
               viewportsInput, viewports>>
loopVars == <<finalStatus, finalResult, totalIssues, criticalIssues, testData>>
readVars == <<readTimes, inFlight, failedReads, firstTerminal, lastOkPayload, lastShape>>
reportVars == <<comments, commentOutcome, commentWrites, summaryWrites, summaryFile>>
failVars == <<setFailedCalls, failureMessage>>

\* the catch block reporting the error and going on to Step 5
Catch_FallsThrough(msg) ==
    /\ setFailedCalls' = setFailedCalls + 1
    /\ failureMessage' = msg
    /\ pc' = "decide"

\* the catch block of run(): core.setFailed(error.message), then run() returns
Catch(msg) ==
    /\ setFailedCalls' = setFailedCalls + 1
    /\ failureMessage' = msg
    /\ pc' = "done"

\* if (!pr): warn and return without triggering anything
NoPullRequest ==
    /\ pc = "start"
    /\ ~pr
    /\ pc' = "done"
    /\ UNCHANGED <<inputVars, now, startTime, triggerVars, testId, dashboardUrl,
                   loopVars, readVars, outputs, reportVars, failVars>>

\* Step 1: fetch(`${apiUrl}/pr-tests`, {method: "POST", ...}) is issued
TriggerTest ==
    /\ pc = "start"
    /\ pr
    /\ triggerRequests' = triggerRequests + 1
    /\ pc' = "trigger_await"
    /\ UNCHANGED <<inputVars, now, startTime, triggerResponse, testId, dashboardUrl,
                   loopVars, readVars, outputs, reportVars, failVars>>

\* the creation request is answered with a non-success response: throw, caught
TriggerRefused(resp) ==
    /\ pc = "trigger_await"
    /\ ~resp.ok
    /\ triggerResponse' = <<resp>>
    /\ Catch(TriggerFailure(resp))
    /\ UNCHANGED <<inputVars, now, startTime, triggerRequests, testId, dashboardUrl,
                   loopVars, readVars, outputs, reportVars>>

\* the creation request rejects (no response): caught
TriggerRejects ==
    /\ pc = "trigger_await"
    /\ Catch(FetchFailure)
    /\ UNCHANGED <<inputVars, now, startTime, triggerVars, testId, dashboardUrl,
                   loopVars, readVars, outputs, reportVars>>

\* the creation answer handled without the wait-for-results test
TriggerAccepted_AlwaysWaits(resp) ==
    /\ pc = "trigger_await"
    /\ resp.ok
    /\ triggerResponse' = <<resp>>
    /\ testId' = resp.prTestId
    /\ dashboardUrl' = DashboardUrl(resp.prTestId)
    /\ outputs' = [outputs EXCEPT !.testId = resp.prTestId,
                                  !.dashboardUrl = DashboardUrl(resp.prTestId)]
    /\ startTime' = now
    /\ finalStatus' = "timeout"
    /\ finalResult' = ""
    /\ totalIssues' = 0
    /\ criticalIssues' = 0
    /\ testData' = <<>>
    /\ pc' = "loop"
    /\ UNCHANGED <<inputVars, now, triggerRequests, readVars, reportVars, failVars>>

\* the creation request succeeds: outputs, then either return (no wait) or
\* enter the poll loop
TriggerAccepted(resp) ==
    /\ pc = "trigger_await"
    /\ resp.ok
    /\ triggerResponse' = <<resp>>
    /\ testId' = resp.prTestId
    /\ dashboardUrl' = DashboardUrl(resp.prTestId)
    /\ IF ~waitForResults
       THEN /\ outputs' = [outputs EXCEPT !.testId = resp.prTestId,
                                          !.dashboardUrl = DashboardUrl(resp.prTestId),
                                          !.status = "triggered"]
            /\ pc' = "done"
            /\ UNCHANGED <<startTime, loopVars>>
       ELSE /\ outputs' = [outputs EXCEPT !.testId = resp.prTestId,
                                          !.dashboardUrl = DashboardUrl(resp.prTestId)]
            /\ startTime' = now
            /\ finalStatus' = "timeout"
            /\ finalResult' = ""
            /\ totalIssues' = 0
            /\ criticalIssues' = 0
            /\ testData' = <<>>
            /\ pc' = "loop"
    /\ UNCHANGED <<inputVars, now, triggerRequests, readVars, reportVars, failVars>>

\* the while test
LoopTest ==
    /\ pc = "loop"
    /\ pc' = IF WhileCondition(now, startTime, timeout, timeoutNaN)
             THEN LoopBodyStart ELSE "outputs"
    /\ UNCHANGED <<inputVars, now, startTime, triggerVars, testId, dashboardUrl,
                   loopVars, readVars, outputs, reportVars, failVars>>

\* await sleep(pollInterval * 1000)
Sleep ==
    /\ pc = "sleep"
    /\ now' = now + SleepSeconds(pollInterval)
    /\ pc' = "fetch"
    /\ UNCHANGED <<inputVars, startTime, triggerVars, testId, dashboardUrl,
                   loopVars, readVars, outputs, reportVars, failVars>>

\* fetch(`${apiUrl}/pr-tests/${testId}?projectId=${projectId}`) is issued
IssueStatusRead ==
    /\ pc = "fetch"
    /\ readTimes' = Append(readTimes, now)
    /\ inFlight' = inFlight + 1
    /\ pc' = "await"
    /\ UNCHANGED <<inputVars, now, startTime, triggerVars, testId, dashboardUrl,
                   loopVars, failedReads, firstTerminal, lastOkPayload, lastShape, outputs,
                   reportVars, failVars>>

\* the status read is answered with a non-success response: warn, continue
StatusReadFails ==
    /\ pc = "await"
    /\ inFlight' = inFlight - 1
    /\ failedReads' = failedReads + 1
    /\ pc' = AfterFailedRead
    /\ UNCHANGED <<inputVars, now, startTime, triggerVars, testId, dashboardUrl,
                   loopVars, readTimes, firstTerminal, lastOkPayload, lastShape, outputs,
                   reportVars, failVars>>

\* the status read rejects (no response): caught by run()
StatusReadRejects ==
    /\ pc = "await"
    /\ inFlight' = inFlight - 1
    /\ Catch(FetchFailure)
    /\ UNCHANGED <<inputVars, now, startTime, triggerVars, testId, dashboardUrl,
                   loopVars, readTimes, failedReads, firstTerminal, lastOkPayload, lastShape,
                   outputs, reportVars>>

\* the status read is answered ok; the service sends payload p in the given shape
StatusReadSucceeds(p, shape) ==
    /\ pc = "await"
    /\ inFlight' = inFlight - 1
    /\ \E stored \in {StoreResult(testData, Unwrap(Response(shape, p)))} :
          /\ testData' = stored
          /\ IF IsTerminal(stored[1].status)
             THEN /\ finalStatus' = stored[1].status
                  /\ finalResult' = ResultOf(stored[1])
                  /\ totalIssues' = TotalOf(stored[1])
                  /\ criticalIssues' = CriticalOf(stored[1])
                  /\ pc' = "outputs"
             ELSE /\ UNCHANGED <<finalStatus, finalResult, totalIssues, criticalIssues>>
                  /\ pc' = "loop"
    /\ firstTerminal' = IF firstTerminal = 0 /\ p.status \in {"completed", "failed"}
                        THEN Len(readTimes) ELSE firstTerminal
    /\ lastOkPayload' = <<p>>
    /\ lastShape' = shape
    /\ UNCHANGED <<inputVars, now, startTime, triggerVars, testId, dashboardUrl,
                   readTimes, failedReads, outputs, reportVars, failVars>>

\* "Set outputs"
SetOutputs ==
    /\ pc = "outputs"
    /\ outputs' = [outputs EXCEPT !.status = finalStatus,
                                  !.result = finalResult,
                                  !.totalIssues = NumberToString(totalIssues),
                                  !.criticalIssues = NumberToString(criticalIssues)]
    /\ pc' = "comment"
    /\ UNCHANGED <<inputVars, now, startTime, triggerVars, testId, dashboardUrl,
                   loopVars, readVars, reportVars, failVars>>

\* Step 3 when commentOnPR && githubToken is false
SkipComment ==
    /\ pc = "comment"
    /\ ~(commentOnPR /\ githubToken # "")
    /\ commentOutcome' = "skipped"
    /\ pc' = "summary"
    /\ UNCHANGED <<inputVars, now, startTime, triggerVars, testId, dashboardUrl,
                   loopVars, readVars, outputs, comments, commentWrites, summaryWrites,
                   summaryFile,
                   failVars>>

\* Step 3: postComment, everything inside its try / catch
PostComment(outcome) ==
    /\ pc = "comment"
    /\ commentOnPR /\ githubToken # ""
    /\ commentOutcome' = outcome
    /\ comments' = IF outcome = "posted"
                   THEN Append(comments,
                               RenderComment(CommentData(finalStatus, finalResult,
                                                         totalIssues, criticalIssues,
                                                         testData)))
                   ELSE comments
    /\ commentWrites' = IF outcome = "render_error" THEN commentWrites
                        ELSE commentWrites + 1
    /\ IF PostCommentEnds(outcome) = "returns"
       THEN /\ pc' = "summary"
            /\ UNCHANGED failVars
       ELSE Catch(CommentFailure)
    /\ UNCHANGED <<inputVars, now, startTime, triggerVars, testId, dashboardUrl,
                   loopVars, readVars, outputs, summaryWrites, summaryFile>>

\* Step 4: logSummary
LogSummary ==
    /\ pc = "summary"
    /\ summaryWrites' = summaryWrites + 1
    /\ summaryFile' = "pending"
    /\ pc' = "decide"
    /\ UNCHANGED <<inputVars, now, startTime, triggerVars, testId, dashboardUrl,
                   loopVars, readVars, outputs, comments, commentOutcome, commentWrites,
                   failVars>>

\* Step 5: fail if criteria met
Exit ==
    /\ pc = "decide"
    /\ LET msg == ExitDecision(finalStatus, failOnCritical, criticalIssues, testData)
       IN  IF msg = NoFailure
           THEN UNCHANGED failVars
           ELSE /\ setFailedCalls' = setFailedCalls + 1
                /\ failureMessage' = msg
    /\ pc' = "done"
    /\ UNCHANGED <<inputVars, now, startTime, triggerVars, testId, dashboardUrl,
                   loopVars, readVars, outputs, reportVars>>

\* core.summary.write() is not awaited: its promise settles once run() has
\* returned, with the file written or with a rejection nobody handles
SummarySettles(outcome) ==
    /\ pc = "done"
    /\ summaryFile = "pending"
    /\ summaryFile' = outcome
    /\ UNCHANGED <<pc, inputVars, now, startTime, triggerVars, testId, dashboardUrl,
                   loopVars, readVars, outputs, comments, commentOutcome, commentWrites,
                   summaryWrites, failVars>>

\* a step of run() against a service that answers the creation request with
\* one of `responses` and an ok status read in one of `shapes`
Run(responses, shapes) ==
    \/ NoPullRequest
    \/ TriggerTest
    \/ \E resp \in responses : TriggerRefused(resp)
    \/ TriggerRejects
    \/ \E resp \in responses : TriggerAccepted(resp)
    \/ LoopTest
    \/ Sleep
    \/ IssueStatusRead
    \/ StatusReadFails
    \/ StatusReadRejects
    \/ \E shape \in shapes : \E p \in Payloads : StatusReadSucceeds(p, shape)
    \/ SetOutputs
    \/ SkipComment
    \/ \E outcome \in CommentOutcomes : PostComment(outcome)
    \/ LogSummary
    \/ Exit

\* one job identifier, answers at the top level
Next == Run(TriggerResponses, {"top"})

Spec == Init /\ [][Next]_vars

(***************************************************************************)
(* Positions of run() the properties speak about.                          *)
(***************************************************************************)
\* inside the poll loop
InLoop == pc \in {"loop", "sleep", "fetch", "await"}

\* the poll loop was left by its while test or its break
LoopExited ==
    \/ pc \in {"outputs", "comment", "summary", "decide"}
    \/ pc = "done" /\ summaryWrites > 0

\* run() went through Step 5
ReachedExit == pc = "done" /\ summaryWrites > 0

Deadline == startTime + timeout

(***************************************************************************)
(* C1.  A run that reaches the exit decision is marked failed if and only  *)
(* if the final status is timeout, or it is failed, or fail-on-critical is *)
(* set and the critical count is above zero; otherwise nothing is marked   *)
(* failed (total issues above zero and critical issues without the flag    *)
(* included).                                                              *)
(***************************************************************************)
C1_ExitDecision ==
    ReachedExit =>
        /\ setFailedCalls \in {0, 1}
        /\ (setFailedCalls = 1) <=>
              \/ finalStatus = "timeout"
              \/ finalStatus = "failed"
              \/ failOnCritical /\ criticalIssues > 0
        /\ (setFailedCalls = 0) => failureMessage = NoFailure

\* fail-on-critical with two critical issues fails a completed run
C1_Witness ==
    /\ ReachedExit
    /\ finalStatus = "completed"
    /\ failOnCritical
    /\ criticalIssues = 2
    /\ setFailedCalls = 1

C3_ExitOnFirstTerminalRead ==
    /\ \A i \in DOMAIN readTimes : readTimes[i] = startTime + i * pollInterval
    /\ firstTerminal > 0 =>
          /\ Len(readTimes) = firstTerminal
          /\ ~InLoop
          /\ finalStatus \in {"completed", "failed"}
          /\ finalStatus = testData[1].status

\* [running, running, completed]: three requests, the third before the deadline
C3_Witness ==
    /\ ReachedExit
    /\ firstTerminal = 3
    /\ failedReads = 0
    /\ Len(readTimes) = 3
    /\ readTimes[3] < Deadline
    /\ finalStatus = "completed"

(***************************************************************************)
(* C4.  A non-success status response neither leaves the loop nor fails    *)
(* the run: after failed reads the run is still in the loop with nothing   *)
(* marked failed, or it left the loop on a terminal read (whose status is  *)
(* the final status) or on a while test that found the timeout elapsed,    *)
(* or a request was rejected without any response.                         *)
(***************************************************************************)
C4_FailedReadsDoNotAbort ==
    failedReads > 0 =>
        /\ InLoop => setFailedCalls = 0 /\ finalStatus = "timeout"
        /\ LoopExited =>
              \/ /\ firstTerminal = Len(readTimes)
                 /\ finalStatus = testData[1].status
              \/ /\ firstTerminal = 0
                 /\ finalStatus = "timeout"
                 /\ now - startTime >= timeout
        /\ ~InLoop /\ ~LoopExited =>
              pc = "done" /\ failureMessage = FetchFailure

\* one failed read, then completed: two requests, the run succeeds
C4_Witness ==
    /\ ReachedExit
    /\ failedReads = 1
    /\ Len(readTimes) = 2
    /\ finalStatus = "completed"
    /\ setFailedCalls = 0

(***************************************************************************)
(* C5.  When the loop ends with final status timeout, the number of status *)
(* reads is the number of while tests k = 0, 1, ... whose elapsed time     *)
(* k * pollInterval is below the timeout (2 for timeout 60, interval 30),  *)
(* and the run is then marked failed once, with the timeout message.       *)
(***************************************************************************)
C5_RequestsUntilTimeout ==
    /\ LoopExited /\ finalStatus = "timeout" =>
          /\ Len(readTimes) =
                IF timeoutNaN THEN 0
                ELSE Cardinality({k \in 0..timeout : k * pollInterval < timeout})
          /\ timeout = 60 /\ pollInterval = 30 => Len(readTimes) = 2
    /\ ReachedExit /\ finalStatus = "timeout" =>
          setFailedCalls = 1 /\ failureMessage = TimeoutFailure

\* timeout 60, interval 30, no terminal status: two requests, timeout failure
C5_Witness ==
    /\ ReachedExit
    /\ timeout = 60
    /\ pollInterval = 30
    /\ readTimes = <<30, 60>>
    /\ finalStatus = "timeout"
    /\ failureMessage = TimeoutFailure

(***************************************************************************)
(* C6 as stated.  When the loop ends with timeout, the outputs, the        *)
(* published comment and the exit decision are those of a run that never   *)
(* received a payload: no field of a non-terminal payload is used.         *)
(***************************************************************************)
C6_TimeoutUsesNoPayloadField ==
    LoopExited /\ finalStatus = "timeout" =>
        /\ pc \notin {"outputs"} =>
              /\ outputs.status = "timeout"
              /\ outputs.result = ""
              /\ outputs.totalIssues = "0"
              /\ outputs.criticalIssues = "0"
        /\ commentOutcome = "posted" =>
              comments = <<RenderComment(CommentData("timeout", "", 0, 0, <<>>))>>
        /\ pc = "done" => failureMessage = TimeoutFailure

(***************************************************************************)
(* C7.  The banner of a published comment follows the priority order       *)
(* timeout, result passed, critical issues, any issues, generic failure,   *)
(* and is one of these five.                                               *)
(***************************************************************************)
C7_BannerPriority ==
    commentOutcome = "posted" =>
        LET b == comments[1].banner
            timedOut == finalStatus = "timeout"
            passed == finalResult = "passed"
        IN  /\ timedOut => b = "Test Timed Out"
            /\ ~timedOut /\ passed => b = "Visual Tests Passed"
            /\ ~timedOut /\ ~passed /\ criticalIssues > 0
                  => b = "Critical Visual Issues Found"
            /\ ~timedOut /\ ~passed /\ criticalIssues <= 0 /\ totalIssues > 0
                  => b = "Visual Issues Found"
            /\ ~timedOut /\ ~passed /\ criticalIssues <= 0 /\ totalIssues <= 0
                  => b = "Visual Tests Failed"
            /\ b \in {"Test Timed Out", "Visual Tests Passed",
                      "Critical Visual Issues Found", "Visual Issues Found",
                      "Visual Tests Failed"}

\* result passed with critical issues: the passed banner wins
C7_Witness ==
    /\ commentOutcome = "posted"
    /\ finalResult = "passed"
    /\ criticalIssues > 0
    /\ comments[1].banner = "Visual Tests Passed"

(***************************************************************************)
(* C8.  Whatever postComment did (posted, threw while rendering, threw     *)
(* while writing, or was skipped), the run goes on to the summary and the  *)
(* exit decision, and what it reports to core.setFailed depends only on    *)
(* the final status, the flag, the critical count and the payload's error. *)
(***************************************************************************)
C8_CommentErrorsNeverEscalate ==
    commentOutcome # "none" =>
        /\ pc \in {"summary", "decide", "done"}
        /\ pc \in {"summary", "decide"} => setFailedCalls = 0
        /\ pc = "done" =>
              /\ summaryWrites = 1
              /\ failureMessage =
                    ExitDecision(finalStatus, failOnCritical, criticalIssues, testData)
              /\ setFailedCalls = IF failureMessage = NoFailure THEN 0 ELSE 1

\* the comment write threw and the run still ends as success
C8_Witness ==
    /\ pc = "done"
    /\ commentOutcome = "write_error"
    /\ commentWrites = 1
    /\ setFailedCalls = 0

(***************************************************************************)
(* C9 as stated.  Every run issues exactly one creation request; a         *)
(* non-success response fails the run at once with the status code and     *)
(* body in the message, with no retry, status read, comment or summary.    *)
(***************************************************************************)
RefusedHandling ==
    triggerResponse # <<>> /\ ~triggerResponse[1].ok =>
        /\ pc = "done"
        /\ setFailedCalls = 1
        /\ failureMessage.kind = "Failed to trigger test"
        /\ failureMessage.n = triggerResponse[1].status
        /\ failureMessage.detail = triggerResponse[1].body
        /\ triggerRequests = 1
        /\ readTimes = <<>>
        /\ commentWrites = 0
        /\ summaryWrites = 0

C10_SequentialReadsAfterSleep ==
    /\ inFlight \in {0, 1}
    /\ inFlight = 1 <=> pc = "await"
    /\ readTimes # <<>> => readTimes[1] >= startTime + pollInterval
    /\ \A i \in DOMAIN readTimes :
          i > 1 => readTimes[i] >= readTimes[i - 1] + pollInterval

\* the second read is in flight, one interval after the first
C10_Witness ==
    /\ pc = "await"
    /\ inFlight = 1
    /\ Len(readTimes) = 2
    /\ readTimes[2] = readTimes[1] + pollInterval

(***************************************************************************)
(* C11.  Once the loop is left the final status is completed, failed or    *)
(* timeout; from then on it does not change and no status read is issued;  *)
(* and at the exit decision exactly one of its branches (timeout failure,  *)
(* remote failure, critical-issue failure, success) has applied.           *)
(***************************************************************************)
ExitBranch ==
    IF failureMessage = TimeoutFailure THEN "timeout"
    ELSE IF failureMessage.kind = "QualiBot test failed" THEN "remote"
    ELSE IF failureMessage.kind = "QualiBot found n critical visual issue(s)." THEN "critical"
    ELSE IF failureMessage = NoFailure THEN "success"
    ELSE "other"

C11_TerminalStates ==
    /\ [](LoopExited =>
            /\ finalStatus \in {"completed", "failed", "timeout"}
            /\ ReachedExit =>
                  /\ ExitBranch = "timeout" <=> finalStatus = "timeout"
                  /\ ExitBranch = "remote" <=> finalStatus = "failed"
                  /\ ExitBranch \in {"critical", "success"} <=> finalStatus = "completed"
                  /\ ExitBranch = "success" <=> setFailedCalls = 0)
    /\ [][LoopExited =>
            /\ LoopExited'
            /\ finalStatus' = finalStatus
            /\ readTimes' = readTimes
            /\ inFlight' = 0]_vars

\* a run that left the loop on a failed status and failed by the remote branch
C11_Witness ==
    /\ ReachedExit
    /\ finalStatus = "failed"
    /\ ExitBranch = "remote"
    /\ Len(readTimes) = 2

(***************************************************************************)
(* C12.  For a positive timeout, counted from loop entry the loop is left  *)
(* no later than timeout + one poll interval: the overrun past the timeout *)
(* never exceeds one interval.                                             *)
(***************************************************************************)
C12_OverrunAtMostOneInterval ==
    LoopExited /\ ~timeoutNaN /\ timeout > 0 =>
        /\ now - startTime <= timeout + pollInterval
        /\ now - startTime - timeout <= pollInterval

\* a loop left on the while test after the timeout, within one interval
C12_Witness ==
    /\ pc = "outputs"
    /\ finalStatus = "timeout"
    /\ timeout > 0
    /\ now - startTime > timeout
    /\ now - startTime < timeout + pollInterval

C14_GenericFailureOnly ==
    /\ LoopExited
    /\ finalStatus = "failed"
    /\ totalIssues = 0
    /\ criticalIssues = 0
    /\ testData[1].error = ""
    => /\ commentOutcome = "posted" => comments[1].banner = "Visual Tests Failed"
       /\ pc = "done" =>
             setFailedCalls = 1 /\ failureMessage = RemoteFailure("Unknown error")

(***************************************************************************)
(* Rendering on its own: the run from the moment its first status read     *)
(* (timeout 60, interval 30) was answered with a terminal payload whose    *)
(* issues list has up to MaxListed items.                                  *)
(***************************************************************************)
RenderPayloads ==
    [status : {"completed", "failed"}, result : ResultLabels,
     issuesSummary : {[present |-> FALSE, total |-> 0, critical |-> 0],
                      [present |-> TRUE, total |-> 1, critical |-> 0],
                      [present |-> TRUE, total |-> 2, critical |-> 1]},
     error : {""}, affectedComponents : {1}, runNumber : {0},
     testResults : 0..MaxListed]

RenderInit ==
    /\ pc = "outputs"
    /\ pr = TRUE
    /\ waitForResults = TRUE
    /\ timeoutNaN = FALSE
    /\ timeout = 60
    /\ pollInterval = 30
    /\ failOnCritical \in BOOLEAN
    /\ commentOnPR \in BOOLEAN
    /\ githubToken = "ghs_token"
    /\ PlainInputs
    /\ now = 30
    /\ startTime = 0
    /\ triggerRequests = 1
    /\ triggerResponse = <<[ok |-> TRUE, status |-> 200, body |-> "", prTestId |-> "t1"]>>
    /\ testId = "t1"
    /\ dashboardUrl = DashboardUrl("t1")
    /\ \E p \in RenderPayloads :
          /\ testData = <<p>>
          /\ finalStatus = p.status
          /\ finalResult = ResultOf(p)
          /\ totalIssues = TotalOf(p)
          /\ criticalIssues = CriticalOf(p)
          /\ lastOkPayload = <<p>>
    /\ lastShape = "top"
    /\ readTimes = <<30>>
    /\ inFlight = 0
    /\ failedReads = 0
    /\ firstTerminal = 1
    /\ outputs = [NoOutputs EXCEPT !.testId = "t1", !.dashboardUrl = DashboardUrl("t1")]
    /\ comments = <<>>
    /\ commentOutcome = "none"
    /\ commentWrites = 0
    /\ summaryWrites = 0
    /\ summaryFile = "none"
    /\ setFailedCalls = 0
    /\ failureMessage = NoFailure

RenderNext ==
    \/ SetOutputs
    \/ SkipComment
    \/ \E outcome \in CommentOutcomes : PostComment(outcome)
    \/ LogSummary
    \/ Exit

RenderSpec == RenderInit /\ [][RenderNext]_vars

(***************************************************************************)
(* C15.  The issues table of a published comment holds the first ten       *)
(* issues in their order (all of them when there are at most ten); the     *)
(* overflow note is there exactly when the list has more than ten items    *)
(* and names length - 10; an empty list gives no issues section.           *)
(***************************************************************************)
C15_IssuesTableCap ==
    commentOutcome = "posted" =>
        LET n == testData[1].testResults
            c == comments[1]
        IN  /\ c.issuesSection <=> n > 0
            /\ Len(c.issueRows) = (IF n <= 10 THEN n ELSE 10)
            /\ \A i \in DOMAIN c.issueRows : c.issueRows[i] = i
            /\ c.overflowNote # <<>> <=> n > 10
            /\ n > 10 => c.overflowNote = <<n - 10>>
            /\ n = 0 => c.issueRows = <<>> /\ c.overflowNote = <<>>

\* eleven issues: ten rows and a note for one more
C15_Witness ==
    /\ commentOutcome = "posted"
    /\ testData[1].testResults = 11
    /\ Len(comments[1].issueRows) = 10
    /\ comments[1].overflowNote = <<1>>

(***************************************************************************)
(* Reading the viewports input on its own: every input of up to            *)
(* MaxInputLen characters of ViewportAlphabet and some longer lists, in a  *)
(* run outside a pull request.                                             *)
(***************************************************************************)
ViewportAlphabet == {"1", "2", "0", "-", ".", "x", ",", " ", "a"}

LongInputs ==
    { <<"1", "9", "2", "0", "x", "1", "0", "8", "0", ",", "0", "x", "5", ",", "1", "2", "x", "7">>,
      <<"2", "x", "1", ",", "a", "x", "1", ",", "1", "x", "2", ",", "1", "2">>,
      <<"-", "5", "x", "1", "0", ",", "1", ".", "5", "x", "2", ",", "1", "x", "2", "x", "3">> }

ViewportInputs ==
    UNION {[1..n -> ViewportAlphabet] : n \in 0..MaxInputLen} \cup LongInputs

\* const viewports = ...
ReadViewports ==
    /\ pc = "inputs"
    /\ viewports' = ParseViewports(viewportsInput)
    /\ pc' = "start"
    /\ UNCHANGED <<pr, waitForResults, timeout, timeoutNaN, pollInterval, failOnCritical,
                   commentOnPR, githubToken, apiKey, orgId, projectId, targetUrl,
                   viewportsInput, now, startTime, triggerVars, testId, dashboardUrl,
                   loopVars, readVars, outputs, reportVars, failVars>>

ViewportInit ==
    /\ pc = "inputs"
    /\ pr = FALSE
    /\ waitForResults = TRUE
    /\ timeoutNaN = FALSE
    /\ timeout = 60
    /\ pollInterval = 30
    /\ failOnCritical = TRUE
    /\ commentOnPR = TRUE
    /\ githubToken = ""
    /\ apiKey = "k1"
    /\ orgId = "o1"
    /\ projectId = "p1"
    /\ targetUrl = "u1"
    /\ viewportsInput \in ViewportInputs
    /\ viewports = <<>>
    /\ FreshRun

ViewportNext ==
    \/ ReadViewports
    \/ NoPullRequest

ViewportSpec == ViewportInit /\ [][ViewportNext]_vars

\* WIDTHxHEIGHT with two positive integers, as the claim reads it
IsPositiveInteger(part) ==
    /\ part # <<>>
    /\ \A i \in DOMAIN part : IsDigit(part[i])
    /\ DecimalValue(part) > 0

WellFormed(token) ==
    LET parts == SplitOn(Trim(token), "x")
    IN  Len(parts) = 2 /\ IsPositiveInteger(parts[1]) /\ IsPositiveInteger(parts[2])

RECURSIVE WellFormedPairs(_)
WellFormedPairs(tokens) ==
    IF tokens = <<>> THEN <<>>
    ELSE (IF WellFormed(Head(tokens))
          THEN LET parts == SplitOn(Trim(Head(tokens)), "x")
               IN  <<[width |-> WholeNumber(DecimalValue(parts[1])),
                      height |-> WholeNumber(DecimalValue(parts[2]))]>>
          ELSE <<>>) \o WellFormedPairs(Tail(tokens))

(***************************************************************************)
(* C16 as stated.  The parsed viewports are exactly the well-formed tokens *)
(* of the input (WIDTHxHEIGHT, two positive integers), in their order;     *)
(* every other token is dropped.  The code keeps a token whenever its      *)
(* first two parts convert to non-zero numbers, so -5x10, 1.5x2 and 1x2x3  *)
(* are kept.                                                               *)
(***************************************************************************)
C16_ExactlyWellFormedKept ==
    pc # "inputs" /\ viewportsInput # <<>> =>
        viewports = WellFormedPairs(SplitOn(viewportsInput, ","))

(***************************************************************************)
(* Runs that differ in the identity inputs, against a service that hands   *)
(* out one of two job identifiers (timeout 2, interval 1).                 *)
(***************************************************************************)
Identities ==
    { <<"k1", "o1", "p1", "u1">>, <<"k2", "o1", "p1", "u1">>, <<"k1", "o2", "p1", "u1">>,
      <<"k1", "o1", "p2", "u1">>, <<"k1", "o1", "p1", "u2">> }

DashboardResponses ==
    TriggerResponses \cup {[ok |-> TRUE, status |-> 200, body |-> "", prTestId |-> "t2"]}

DashboardInit ==
    /\ pc = "start"
    /\ pr \in BOOLEAN
    /\ waitForResults \in BOOLEAN
    /\ timeoutNaN = FALSE
    /\ timeout = 2
    /\ pollInterval = 1
    /\ failOnCritical = TRUE
    /\ commentOnPR = TRUE
    /\ githubToken \in Tokens
    /\ \E id \in Identities :
          /\ apiKey = id[1]
          /\ orgId = id[2]
          /\ projectId = id[3]
          /\ targetUrl = id[4]
    /\ viewportsInput = <<>>
    /\ viewports = ParseViewports(<<>>)
    /\ FreshRun

DashboardNext == Run(DashboardResponses, {"top"})

DashboardSpec == DashboardInit /\ [][DashboardNext]_vars

(***************************************************************************)
(* C17.  The dashboard URL is the fixed base, "/view/" and the job         *)
(* identifier of the creation response, whatever the API key, organisation *)
(* id, project id and target URL of the run are; the output carries the    *)
(* same URL; once set the URL never changes.                               *)
(***************************************************************************)
C17_DashboardUrlFromJobId ==
    /\ [](/\ dashboardUrl # <<>> =>
                /\ triggerResponse # <<>>
                /\ triggerResponse[1].ok
                /\ testId = triggerResponse[1].prTestId
                /\ dashboardUrl = <<"https://quali-bot--quali-bot-da8cd.europe-west4.hosted.app",
                                    "/view/", triggerResponse[1].prTestId>>
                /\ outputs.dashboardUrl = dashboardUrl
          /\ dashboardUrl = <<>> => pc \in {"start", "trigger_await", "done"})
    /\ [][dashboardUrl # <<>> => dashboardUrl' = dashboardUrl /\ testId' = testId]_vars

\* a finished run of another organisation that was handed the second identifier
C17_Witness ==
    /\ pc = "done"
    /\ orgId = "o2"
    /\ testId = "t2"
    /\ dashboardUrl = <<AppBaseUrl, "/view/", "t2">>
    /\ summaryWrites = 1

(***************************************************************************)
(* C18.  testData always is the payload of the last ok status answer       *)
(* (null before the first): an ok answer replaces it, a failed read leaves *)
(* it alone, and nothing writes it after the loop.  The comment and the    *)
(* exit decision are built from that last payload; with no ok answer at    *)
(* all the run ends as a timeout with every derived value at its default.  *)
(***************************************************************************)
C18_LastSuccessfulPayloadOnly ==
    /\ [](/\ testData = lastOkPayload
          /\ commentOutcome = "posted" =>
                /\ comments[1].components =
                      (IF lastOkPayload = <<>> THEN 0 ELSE lastOkPayload[1].affectedComponents)
                /\ Len(comments[1].issueRows) =
                      (IF lastOkPayload = <<>> THEN 0 ELSE lastOkPayload[1].testResults)
                /\ comments[1].runTag =
                      (IF lastOkPayload = <<>> \/ lastOkPayload[1].runNumber <= 1
                       THEN 0 ELSE lastOkPayload[1].runNumber)
          /\ ReachedExit /\ finalStatus = "failed" =>
                /\ lastOkPayload # <<>>
                /\ failureMessage =
                      RemoteFailure(IF lastOkPayload[1].error = "" THEN "Unknown error"
                                    ELSE lastOkPayload[1].error)
          /\ LoopExited /\ lastOkPayload = <<>> =>
                /\ finalStatus = "timeout" /\ finalResult = ""
                /\ totalIssues = 0 /\ criticalIssues = 0
                /\ commentOutcome = "posted" =>
                      /\ comments[1].banner = "Test Timed Out"
                      /\ ~comments[1].issuesSection
                /\ ReachedExit => failureMessage = TimeoutFailure)
    /\ [][/\ failedReads' # failedReads => testData' = testData
          /\ testData' # testData => pc = "await" /\ testData' = lastOkPayload'
          /\ LoopExited => testData' = testData]_vars

\* a running answer, then a failed one with an error text: the report and the
\* exit message carry the second
C18_Witness ==
    /\ pc = "done"
    /\ Len(readTimes) = 2
    /\ failedReads = 0
    /\ lastOkPayload # <<>>
    /\ lastOkPayload[1].status = "failed"
    /\ lastOkPayload[1].error = "boom"
    /\ commentOutcome = "posted"
    /\ failureMessage = RemoteFailure("boom")

(***************************************************************************)
(* C19.  After a terminal read the four result values are the copies of    *)
(* that payload: its status, its result label or "unknown" when there is   *)
(* none, its total and critical counts or 0 when there is no summary.      *)
(* Without a terminal read they keep their initial values, only the        *)
(* terminal read writes them, and the outputs set after the loop are       *)
(* these values.                                                           *)
(***************************************************************************)
C19_TerminalCopyWithDefaults ==
    /\ [](/\ firstTerminal > 0 =>
                /\ testData # <<>>
                /\ finalStatus = testData[1].status
                /\ finalStatus \in {"completed", "failed"}
                /\ finalResult = (IF testData[1].result = "" THEN "unknown"
                                  ELSE testData[1].result)
                /\ totalIssues = (IF testData[1].issuesSummary.present
                                  THEN testData[1].issuesSummary.total ELSE 0)
                /\ criticalIssues = (IF testData[1].issuesSummary.present
                                     THEN testData[1].issuesSummary.critical ELSE 0)
          /\ firstTerminal = 0 /\ finalStatus # Unset =>
                /\ finalStatus = "timeout" /\ finalResult = ""
                /\ totalIssues = 0 /\ criticalIssues = 0
          /\ outputs.status \notin {Unset, "triggered"} =>
                /\ LoopExited
                /\ outputs.status = finalStatus
                /\ outputs.result = finalResult
                /\ outputs.totalIssues = Digits[totalIssues + 1]
                /\ outputs.criticalIssues = Digits[criticalIssues + 1]
          /\ pc \in {"comment", "summary", "decide"} => outputs.status = finalStatus)
    /\ [][/\ finalStatus # Unset
          /\ <<finalStatus, finalResult, totalIssues, criticalIssues>>' #
                <<finalStatus, finalResult, totalIssues, criticalIssues>>
          => pc = "await" /\ firstTerminal = 0 /\ firstTerminal' = Len(readTimes)]_vars

\* a completed answer without label and summary: unknown, 0 and 0 in the outputs
C19_Witness ==
    /\ pc = "done"
    /\ firstTerminal = 2
    /\ testData[1].status = "completed"
    /\ testData[1].result = ""
    /\ ~testData[1].issuesSummary.present
    /\ outputs.status = "completed"
    /\ outputs.result = "unknown"
    /\ outputs.totalIssues = "0"
    /\ outputs.criticalIssues = "0"

(***************************************************************************)
(* A service that answers status reads in either shape (timeout 2,         *)
(* interval 1).                                                            *)
(***************************************************************************)
Shapes == {"top", "nested"}

ShapeInit ==
    /\ pc = "start"
    /\ pr \in BOOLEAN
    /\ waitForResults \in BOOLEAN
    /\ timeoutNaN = FALSE
    /\ timeout = 2
    /\ pollInterval = 1
    /\ failOnCritical \in BOOLEAN
    /\ commentOnPR = TRUE
    /\ githubToken \in Tokens
    /\ PlainInputs
    /\ FreshRun

ShapeNext == Run(TriggerResponses, Shapes)

ShapeSpec == ShapeInit /\ [][ShapeNext]_vars

(***************************************************************************)
(* C20.  An ok status answer has the same effect in both shapes: the step  *)
(* that receives payload p stores p and leaves the loop exactly when p is  *)
(* terminal, copying p's fields, whatever the shape; final status,         *)
(* outputs, comment and exit decision are those of the payload.            *)
(***************************************************************************)
C20_ShapeMakesNoDifference ==
    /\ [](/\ testData = lastOkPayload
          /\ firstTerminal > 0 <=>
                lastOkPayload # <<>> /\ lastOkPayload[1].status \in {"completed", "failed"}
          /\ firstTerminal > 0 =>
                /\ finalStatus = lastOkPayload[1].status
                /\ finalResult = ResultOf(lastOkPayload[1])
                /\ totalIssues = TotalOf(lastOkPayload[1])
                /\ criticalIssues = CriticalOf(lastOkPayload[1])
          /\ outputs.status \notin {Unset, "triggered"} =>
                outputs.status = (IF firstTerminal > 0 THEN lastOkPayload[1].status
                                  ELSE "timeout")
          /\ commentOutcome = "posted" =>
                comments[1] = RenderComment(CommentData(finalStatus, finalResult, totalIssues,
                                                        criticalIssues, lastOkPayload))
          /\ ReachedExit =>
                /\ ExitDecision(finalStatus, failOnCritical, criticalIssues, lastOkPayload) =
                      failureMessage
                /\ setFailedCalls = (IF failureMessage = NoFailure THEN 0 ELSE 1))
    /\ [][lastShape' # lastShape \/ lastOkPayload' # lastOkPayload =>
             /\ pc = "await"
             /\ pc' = (IF lastOkPayload'[1].status \in {"completed", "failed"}
                       THEN "outputs" ELSE "loop")
             /\ testData' = lastOkPayload'
             /\ readTimes' = readTimes /\ now' = now]_vars

\* a nested completed answer with a critical issue: the run leaves the loop,
\* reports it and fails on it
C20_Witness ==
    /\ pc = "done"
    /\ lastShape = "nested"
    /\ firstTerminal = 1
    /\ lastOkPayload[1].status = "completed"
    /\ CriticalOf(lastOkPayload[1]) = 1
    /\ outputs.criticalIssues = "1"
    /\ commentOutcome = "posted"
    /\ failureMessage = CriticalFailure(1)

(***************************************************************************)
(* The run followed past the return of run(), until the pending summary    *)
(* write has settled (timeout 2, interval 1).                              *)
(***************************************************************************)
SummaryOutcomes == {"written", "rejected"}

FlowInit ==
    /\ pc = "start"
    /\ pr \in BOOLEAN
    /\ waitForResults \in BOOLEAN
    /\ timeoutNaN = FALSE
    /\ timeout = 2
    /\ pollInterval = 1
    /\ failOnCritical \in BOOLEAN
    /\ commentOnPR \in BOOLEAN
    /\ githubToken \in Tokens
    /\ PlainInputs
    /\ FreshRun

FlowNext ==
    \/ Run(TriggerResponses, {"top"})
    \/ \E outcome \in SummaryOutcomes : SummarySettles(outcome)

FlowSpec == FlowInit /\ [][FlowNext]_vars

(***************************************************************************)
(* C21 as stated.  The creation request precedes every status read; the    *)
(* comment write and the summary write come after the last status read     *)
(* and before the exit decision; there is at most one comment write, and   *)
(* only with comment-on-pr set and a token.  The summary write is started  *)
(* before the exit decision but never awaited, so when run() has decided   *)
(* and returned the summary is still unwritten.                            *)
(***************************************************************************)
C21_TriggerPollRenderExit ==
    /\ readTimes # <<>> => triggerRequests = 1 /\ triggerResponse # <<>>
    /\ commentWrites \in {0, 1}
    /\ commentWrites = 1 => commentOnPR /\ githubToken # "" /\ LoopExited /\ inFlight = 0
    /\ summaryFile # "none" => LoopExited /\ inFlight = 0
    /\ ReachedExit => summaryFile = "written"

(***************************************************************************)
(* C22.  With wait-for-results false, once the creation request was        *)
(* answered ok the run is over: no status read, no comment write, no       *)
(* summary write, the status output is "triggered", the job outputs are    *)
(* set, and the run is not marked failed.                                  *)
(***************************************************************************)
C22_NoWaitEndsAfterTrigger ==
    ~waitForResults /\ triggerResponse # <<>> /\ triggerResponse[1].ok =>
        /\ pc = "done"
        /\ triggerRequests = 1
        /\ readTimes = <<>> /\ inFlight = 0 /\ now = 0
        /\ commentWrites = 0 /\ comments = <<>> /\ commentOutcome = "none"
        /\ summaryWrites = 0 /\ summaryFile = "none"
        /\ outputs = [NoOutputs EXCEPT !.testId = triggerResponse[1].prTestId,
                                       !.dashboardUrl = dashboardUrl,
                                       !.status = "triggered"]
        /\ setFailedCalls = 0 /\ failureMessage = NoFailure

\* a run with comments enabled and a token that does not wait
C22_Witness ==
    /\ pc = "done"
    /\ ~waitForResults
    /\ commentOnPR /\ githubToken # ""
    /\ triggerResponse # <<>> /\ triggerResponse[1].ok
    /\ outputs.status = "triggered"
    /\ outputs.testId = "t1"

(***************************************************************************)
(* C23.  With a timeout that is zero, negative or NaN the loop body never  *)
(* runs: the run never sleeps and never reads the status; after the loop   *)
(* the final status is "timeout", the label empty, the counts zero, and    *)
(* the run that got past the trigger ends failed with the timeout message. *)
(***************************************************************************)
C23_NonPositiveTimeoutSkipsLoop ==
    timeoutNaN \/ timeout <= 0 =>
        /\ pc \notin {"sleep", "fetch", "await"}
        /\ now = 0 /\ readTimes = <<>> /\ inFlight = 0 /\ failedReads = 0
        /\ testData = <<>>
        /\ LoopExited =>
              /\ finalStatus = "timeout" /\ finalResult = ""
              /\ totalIssues = 0 /\ criticalIssues = 0
        /\ pc \in {"comment", "summary", "decide"} \/ ReachedExit =>
              outputs.status = "timeout" /\ outputs.result = ""
              /\ outputs.totalIssues = "0" /\ outputs.criticalIssues = "0"
        /\ commentOutcome = "posted" => comments[1].banner = "Test Timed Out"
        /\ pc = "done" /\ finalStatus # Unset =>
              /\ summaryWrites = 1
              /\ setFailedCalls = 1
              /\ failureMessage = TimeoutFailure

\* a run whose timeout input is no number: reported and failed as a timeout
C23_Witness ==
    /\ timeoutNaN
    /\ pc = "done"
    /\ readTimes = <<>> /\ now = 0
    /\ finalStatus = "timeout"
    /\ commentOutcome = "posted"
    /\ failureMessage = TimeoutFailure

====
